---------------------------- MODULE Spec2Model ----------------------------
(***************************************************************************)
(* Model of src/src/json.rs: a recursive-descent parser for a JSON-like    *)
(* grammar written with the winnow parser combinators.                     *)
(*                                                                         *)
(* A text is a sequence of one-character strings.  The cursor (&mut &str)  *)
(* is the number of characters already consumed.  Every parser is an       *)
(* operator from (text, cursor) to a result record                         *)
(*     [ok, cut, pos, val, log]                                            *)
(* ok  : Ok(..) or Err(..);  cut : the error is ErrMode::Cut, not          *)
(* Backtrack;  pos : the cursor when the parser returns;  val : the        *)
(* output;  log : history of the calls made (a ghost, see Event).          *)
(*                                                                         *)
(* winnow leaves the cursor wherever a failing parser stopped; only the    *)
(* combinators that backtrack (alt, opt, separated, parse_to) take a       *)
(* checkpoint and reset it.  The model keeps exactly that.                 *)
(***************************************************************************)
EXTENDS Integers, Sequences, FiniteSets, TLC

---------------------------------------------------------------------------
(* Bounds of the explored inputs *)

\* Spec: texts of at most MaxTokens tokens of Tokens
MaxTokens == 3
\* SpecNum: texts of at most MaxNumLen characters of NumChars
MaxNumLen == 5
\* SpecDoc: array and object literals of at most MaxElems elements
MaxElems == 3
\* SpecWs: literals of at most MaxWsElems elements, with at most MaxWs
\* whitespace characters inserted
MaxWsElems == 2
MaxWs == 1

---------------------------------------------------------------------------
(* Characters *)

Digits == {"0", "1", "2", "3", "4", "5", "6", "7", "8", "9"}

\* winnow::ascii::multispace0 skips spaces, tabs, carriage returns, line feeds
Whitespace == {" ", "\t", "\r", "\n"}

DigitValue(c) ==
  CASE c = "0" -> 0 [] c = "1" -> 1 [] c = "2" -> 2 [] c = "3" -> 3
    [] c = "4" -> 4 [] c = "5" -> 5 [] c = "6" -> 6 [] c = "7" -> 7
    [] c = "8" -> 8 [] c = "9" -> 9

\* i64::MAX = 2^63 - 1 = 9223372036854775807, as decimal digits (the
\* model checker's integers are 32 bits wide, so an i64 is kept as its
\* decimal magnitude and a sign)
I64MaxDigits ==
  <<"9", "2", "2", "3", "3", "7", "2", "0", "3", "6", "8", "5", "4", "7", "7",
    "5", "8", "0", "7">>

---------------------------------------------------------------------------
(* Results *)

NoVal == <<"none">>

Ok(p, v) == [ok |-> TRUE, cut |-> FALSE, pos |-> p, val |-> v, log |-> {}]

\* Err(ErrMode::Backtrack(_)) with the cursor left at p
Fail(p) == [ok |-> FALSE, cut |-> FALSE, pos |-> p, val |-> NoVal, log |-> {}]

\* Err(ErrMode::Cut(_)) with the cursor left at p
Cut(p) == [ok |-> FALSE, cut |-> TRUE, pos |-> p, val |-> NoVal, log |-> {}]

WithLog(r, l) == [r EXCEPT !.log = @ \cup l]

\* Ghost events of a parse:
\*   <<"rec", p, q>>   parse_array / parse_object entered at p called
\*                     parse_value at q
\*   <<"iter", p, q>>  one separator-and-element round of a separated list
\*                     moved the cursor from p to q
\*   <<"deep", p, p>>  the call stack was exhausted at p
Event(kind, p, q) == <<kind, p, q>>

---------------------------------------------------------------------------
(* winnow primitives *)

RECURSIVE SkipWhile(_, _, _)
SkipWhile(s, pos, class) ==
  IF pos < Len(s) /\ s[pos + 1] \in class
    THEN SkipWhile(s, pos + 1, class)
    ELSE pos

\* a string or char literal used as a parser
literal(s, pos, text) ==
  IF pos + Len(text) <= Len(s) /\ SubSeq(s, pos + 1, pos + Len(text)) = text
    THEN Ok(pos + Len(text), text)
    ELSE Fail(pos)

\* winnow::ascii::digit1: the maximal run of digits, at least one
digit1(s, pos) ==
  LET e == SkipWhile(s, pos, Digits)
  IN  IF e > pos THEN Ok(e, SubSeq(s, pos + 1, e)) ELSE Fail(pos)

\* winnow::ascii::multispace0: the maximal run of whitespace, maybe empty
multispace0(s, pos) == Ok(SkipWhile(s, pos, Whitespace), <<>>)

\* winnow::token::take_until(0.., '"'): the text before the next occurrence
\* of c, which is not consumed; fails when c does not occur
take_until(s, pos, c) ==
  LET hits == {i \in (pos + 1)..Len(s) : s[i] = c}
  IN  IF hits = {}
        THEN Fail(pos)
        ELSE LET i == CHOOSE h \in hits : \A g \in hits : h <= g
             IN  Ok(i - 1, SubSeq(s, pos + 1, i - 1))

\* winnow::combinator::opt: a Backtrack failure of r, which was run from
\* start, becomes Ok(None) with the cursor reset to start
opt(r, start) ==
  IF r.ok THEN [r EXCEPT !.val = <<"Some", r.val>>]
  ELSE IF r.cut THEN r
  ELSE Ok(start, <<"None">>)

---------------------------------------------------------------------------
(* str::parse::<i64>() on a digit run *)

RECURSIVE StripLeadingZeros(_)
StripLeadingZeros(ds) ==
  IF Len(ds) > 1 /\ ds[1] = "0" THEN StripLeadingZeros(Tail(ds)) ELSE ds

\* lexicographic a <= b for digit sequences of equal length
RECURSIVE DigitsLeq(_, _)
DigitsLeq(a, b) ==
  IF a = <<>> THEN TRUE
  ELSE IF DigitValue(a[1]) < DigitValue(b[1]) THEN TRUE
  ELSE IF DigitValue(a[1]) > DigitValue(b[1]) THEN FALSE
  ELSE DigitsLeq(Tail(a), Tail(b))

\* FitsI64 as a conversion that wraps around instead of reporting overflow
FitsI64_wrapping(ds) == TRUE

\* the value fits an i64 (checked arithmetic in i64::from_str)
FitsI64(ds) ==
  LET m == StripLeadingZeros(ds)
  IN  \/ Len(m) < Len(I64MaxDigits)
      \/ Len(m) = Len(I64MaxDigits) /\ DigitsLeq(m, I64MaxDigits)

\* digit1.parse_to::<i64>(): the i64 as its decimal magnitude; ParseTo takes
\* a checkpoint and resets the cursor to it when the conversion fails
parse_to_i64(s, pos) ==
  LET d == digit1(s, pos)
  IN  IF ~d.ok THEN d
      ELSE IF FitsI64(d.val) THEN Ok(d.pos, StripLeadingZeros(d.val))
      ELSE Fail(pos)

---------------------------------------------------------------------------
(* Num *)

Zero == <<"0">>

\* Num::Int(n) or Num::Int(-(n)): -0 is 0
NumInt(sign, mag) == <<"Int", sign /\ mag # Zero, mag>>

RECURSIVE StripTrailingZeros(_)
StripTrailingZeros(ds) ==
  IF ds # <<>> /\ ds[Len(ds)] = "0"
    THEN StripTrailingZeros(SubSeq(ds, 1, Len(ds) - 1))
    ELSE ds

\* format!("{}.{}", num, frac).parse::<f64>(), negated when sign is set:
\* the decimal number whose integer digits are those of num and whose
\* fractional digits are those of frac, both printed without leading
\* zeros.  The f64 is kept as that decimal (exact up to 15 significant
\* digits); -0.0 == 0.0.
NumFloat(sign, num, frac) ==
  LET fp == StripTrailingZeros(frac)
  IN  <<"Float", sign /\ ~(num = Zero /\ fp = <<>>), num, fp>>

---------------------------------------------------------------------------
(* The scalar parsers of json.rs *)

\* "null".value(())
parse_null(s, pos) ==
  LET r == literal(s, pos, <<"n", "u", "l", "l">>)
  IN  IF r.ok THEN Ok(r.pos, <<"unit">>) ELSE r

\* alt(("true", "false")).parse_to()
parse_bool(s, pos) ==
  LET t == literal(s, pos, <<"t", "r", "u", "e">>)
      f == literal(s, pos, <<"f", "a", "l", "s", "e">>)
  IN  IF t.ok THEN Ok(t.pos, TRUE)
      ELSE IF f.ok THEN Ok(f.pos, FALSE)
      ELSE Fail(f.pos)

parse_num(s, pos) ==
  LET sg   == opt(literal(s, pos, <<"-">>), pos)
      sign == sg.val[1] = "Some"
      num  == parse_to_i64(s, sg.pos)
  IN  IF ~num.ok THEN Fail(num.pos)
      ELSE LET ret == literal(s, num.pos, <<".">>)
           IN  IF ret.ok
                 THEN LET frac == parse_to_i64(s, ret.pos)
                      IN  IF ~frac.ok THEN Fail(frac.pos)
                          ELSE Ok(frac.pos, NumFloat(sign, num.val, frac.val))
                 ELSE Ok(ret.pos, NumInt(sign, num.val))

\* delimited('"', take_until(0.., '"'), '"')
parse_string(s, pos) ==
  LET open == literal(s, pos, <<"\"">>)
  IN  IF ~open.ok THEN Fail(open.pos)
      ELSE LET body == take_until(s, open.pos, "\"")
           IN  IF ~body.ok THEN Fail(body.pos)
               ELSE LET close == literal(s, body.pos, <<"\"">>)
                    IN  IF ~close.ok THEN Fail(close.pos)
                        ELSE Ok(close.pos, body.val)

\* sep_with_space without the whitespace skip before the character
sep_without_leading_space(s, pos, c) ==
  LET tok == literal(s, pos, <<c>>)
  IN  IF ~tok.ok THEN Fail(tok.pos)
      ELSE Ok(multispace0(s, tok.pos).pos, <<"unit">>)

\* sep_with_space without the whitespace skip after the character
sep_without_trailing_space(s, pos, c) ==
  LET before == multispace0(s, pos)
      tok    == literal(s, before.pos, <<c>>)
  IN  IF ~tok.ok THEN Fail(tok.pos) ELSE Ok(tok.pos, <<"unit">>)

\* sep_with_space(c): multispace0, the character c, multispace0
sep_with_space(s, pos, c) ==
  LET before == multispace0(s, pos)
      tok    == literal(s, before.pos, <<c>>)
  IN  IF ~tok.ok THEN Fail(tok.pos)
      ELSE Ok(multispace0(s, tok.pos).pos, <<"unit">>)

---------------------------------------------------------------------------
(* The recursive parsers of json.rs *)

\* Insert as an insertion that keeps the value a key already has
Insert_if_absent(m, k, v) ==
  [x \in DOMAIN m \cup {k} |-> IF x \in DOMAIN m THEN m[x] ELSE v]

\* HashMap::insert: a later insertion of a key replaces the earlier one
Insert(m, k, v) == [x \in DOMAIN m \cup {k} |-> IF x = k THEN v ELSE m[x]]

\* Accumulate for HashMap<K, V>: the (key, value) outputs are inserted in
\* the order they were parsed
RECURSIVE HashMapOf(_)
HashMapOf(kvs) ==
  IF kvs = <<>> THEN <<>>
  ELSE LET n == Len(kvs)
       IN  Insert(HashMapOf(SubSeq(kvs, 1, n - 1)), kvs[n][1], kvs[n][2])

\* the call stack available to a parse of s: more than any nesting that
\* consumes a character per level can use
StackDepth(s) == Len(s) + 1

RECURSIVE parse_value(_, _, _)
RECURSIVE separated_loop(_, _, _, _, _, _, _)

\* the call of parse_value made by the parse_array / parse_object that was
\* entered at open
nested_value(s, pos, open, depth) ==
  WithLog(parse_value(s, pos, depth - 1), {Event("rec", open, pos)})

\* separated_pair(parse_string, sep_colon, parse_value): the pair, given
\* the results k of the key and v of the value
pair_value(k, v) ==
  IF ~v.ok THEN v ELSE WithLog(Ok(v.pos, <<k.val, v.val>>), v.log)

\* ... given the results k of the key and colon of sep_colon
pair_colon(s, open, depth, k, colon) ==
  IF ~colon.ok THEN Fail(colon.pos)
  ELSE pair_value(k, nested_value(s, colon.pos, open, depth))

\* ... given the result k of the key
pair_key(s, open, depth, k) ==
  IF ~k.ok THEN Fail(k.pos)
  ELSE pair_colon(s, open, depth, k, sep_with_space(s, k.pos, ":"))

parse_kv_pair(s, pos, open, depth) ==
  pair_key(s, open, depth, parse_string(s, pos))

\* the element parser of the list: parse_value in parse_array,
\* parse_kv_pair in parse_object
element(kind, s, pos, open, depth) ==
  IF kind = "value"
    THEN nested_value(s, pos, open, depth)
    ELSE parse_kv_pair(s, pos, open, depth)

\* loop_element without the reset to the checkpoint: a list that ends at a
\* failing element keeps the separator before it consumed
loop_element_without_reset(kind, s, pos, acc, log, open, depth, e) ==
  IF e.cut THEN WithLog(e, log)
  ELSE IF ~e.ok THEN WithLog(Ok(e.pos, acc), log \cup e.log)
  ELSE separated_loop(kind, s, e.pos, Append(acc, e.val),
         log \cup e.log \cup {Event("iter", pos, e.pos)}, open, depth)

\* one round of winnow's separated, from the checkpoint pos taken before
\* the separator, given the result e of the element: a Backtrack failure
\* resets the cursor to the checkpoint and ends the list
loop_element(kind, s, pos, acc, log, open, depth, e) ==
  IF e.cut THEN WithLog(e, log)
  ELSE IF ~e.ok THEN WithLog(Ok(pos, acc), log \cup e.log)
  ELSE separated_loop(kind, s, e.pos, Append(acc, e.val),
         log \cup e.log \cup {Event("iter", pos, e.pos)}, open, depth)

\* ... given the result sep of the separator: a Backtrack failure resets
\* the cursor and ends the list; a separator that consumed nothing is an
\* assertion error
loop_separator(kind, s, pos, acc, log, open, depth, sep) ==
  IF ~sep.ok THEN WithLog(Ok(pos, acc), log)
  ELSE IF sep.pos = pos THEN WithLog(Cut(sep.pos), log)
  ELSE loop_element(kind, s, pos, acc, log, open, depth,
         element(kind, s, sep.pos, open, depth))

\* the loop of winnow's separated after the first element: separator,
\* element, accumulate
separated_loop(kind, s, pos, acc, log, open, depth) ==
  loop_separator(kind, s, pos, acc, log, open, depth,
    sep_with_space(s, pos, ","))

\* separated, given the result first of the first element: with min = 0
\* (separated0_) its Backtrack failure resets the cursor and gives the
\* empty list, with min = 1 (separated1_) it is the list's failure
separated_first(min, kind, s, pos, open, depth, first) ==
  IF first.ok
    THEN separated_loop(kind, s, first.pos, <<first.val>>, first.log,
           open, depth)
  ELSE IF first.cut \/ min > 0 THEN first
  ELSE WithLog(Ok(pos, <<>>), first.log)

\* separated(min.., element, sep_comma); the elements in parse order
separated(min, kind, s, pos, open, depth) ==
  separated_first(min, kind, s, pos, open, depth,
    element(kind, s, pos, open, depth))

\* delimited(sep1, list, sep2), given the results of list and of sep2
delimited_close(list, sep2) ==
  IF ~sep2.ok THEN WithLog(Fail(sep2.pos), list.log)
  ELSE WithLog(Ok(sep2.pos, list.val), list.log)

\* ... given the result of list
delimited_list(s, close, list) ==
  IF ~list.ok THEN list
  ELSE delimited_close(list, sep_with_space(s, list.pos, close))

\* delimited_open with the list run from the position the parser was
\* entered at, not from the cursor after sep1
delimited_open_from_entry(s, pos, depth, min, kind, close, sep1) ==
  IF ~sep1.ok THEN Fail(sep1.pos)
  ELSE delimited_list(s, close, separated(min, kind, s, pos, pos, depth))

\* ... given the result of sep1, for a parser entered at pos
delimited_open(s, pos, depth, min, kind, close, sep1) ==
  IF ~sep1.ok THEN Fail(sep1.pos)
  ELSE delimited_list(s, close,
         separated(min, kind, s, sep1.pos, pos, depth))

\* delimited(sep_with_space(open), separated(min.., element, sep_comma),
\*           sep_with_space(close))
delimited(s, pos, depth, open, min, kind, close) ==
  delimited_open(s, pos, depth, min, kind, close,
    sep_with_space(s, pos, open))

\* separated(0.., parse_value, sep_comma) accumulates into a Vec
parse_array(s, pos, depth) == delimited(s, pos, depth, "[", 0, "value", "]")

\* the HashMap that separated(1.., parse_kv_pair, sep_comma) accumulates
IntoHashMap(r) == IF r.ok THEN [r EXCEPT !.val = HashMapOf(@)] ELSE r

\* parse_object with separated(0.., ..) in place of separated(1.., ..)
parse_object_from_zero(s, pos, depth) ==
  IntoHashMap(delimited(s, pos, depth, "{", 0, "pair", "}"))

parse_object(s, pos, depth) ==
  IntoHashMap(delimited(s, pos, depth, "{", 1, "pair", "}"))

JsonValue(tag, v) == IF tag = "Null" THEN <<"Null">> ELSE <<tag, v>>

AltTags == <<"Null", "Bool", "Number", "String", "Array", "Object">>

\* .value(JsonValue::Null) / .map(JsonValue::...) on the k-th parser
mapped(k, r) == IF r.ok THEN [r EXCEPT !.val = JsonValue(AltTags[k], @)] ELSE r

\* the k-th parser of the alt in parse_value
alternative(k, s, pos, depth) ==
  mapped(k, CASE k = 1 -> parse_null(s, pos)
              [] k = 2 -> parse_bool(s, pos)
              [] k = 3 -> parse_num(s, pos)
              [] k = 4 -> parse_string(s, pos)
              [] k = 5 -> parse_array(s, pos, depth)
              [] k = 6 -> parse_object(s, pos, depth))

RECURSIVE alt(_, _, _, _, _)

\* alt_result without the reset: the next parser runs from where the
\* failing one stopped
alt_result_without_reset(k, s, start, log, depth, r) ==
  IF r.ok \/ r.cut \/ k = Len(AltTags) THEN WithLog(r, log)
  ELSE alt(k + 1, s, r.pos, log \cup r.log, depth)

\* winnow's alt, given the result r of its k-th parser: the first Ok or
\* Cut is the result; a Backtrack failure resets the cursor to the
\* checkpoint start before the next parser runs; after the last parser's
\* Backtrack failure the cursor stays where that parser left it
alt_result(k, s, start, log, depth, r) ==
  IF r.ok \/ r.cut \/ k = Len(AltTags) THEN WithLog(r, log)
  ELSE alt(k + 1, s, start, log \cup r.log, depth)

\* winnow's alt over a tuple of parsers, from the k-th on
alt(k, s, start, log, depth) ==
  alt_result(k, s, start, log, depth, alternative(k, s, start, depth))

parse_value(s, pos, depth) ==
  IF depth <= 0
    THEN WithLog(Fail(pos), {Event("deep", pos, pos)})
    ELSE alt(1, s, pos, {}, depth)

\* parse_json: parse_value on the text, its error wrapped in an anyhow
\* error; nothing is checked after parse_value returns
parse_json(s) == parse_value(s, 0, StackDepth(s))

---------------------------------------------------------------------------
(* The texts the parsers are run on *)

Tokens ==
  { <<"n", "u", "l", "l">>, <<"t", "r", "u", "e">>, <<"f", "a", "l", "s", "e">>,
    <<"0">>, <<"1">>, <<"-">>, <<".">>, <<"\"">>, <<"a">>, <<"[">>, <<"]">>,
    <<"{">>, <<"}">>, <<",">>, <<":">>, <<" ">> }

\* the texts made of at most n elements of the set parts
RECURSIVE TextsOf(_, _)
TextsOf(parts, n) ==
  IF n = 0 THEN {<<>>}
  ELSE LET shorter == TextsOf(parts, n - 1)
       IN  shorter \cup {t \o k : t \in shorter, k \in parts}

NumChars == {<<"0">>, <<"1">>, <<"5">>, <<"-">>, <<".">>, <<"x">>}

\* 2^63 as decimal digits
I64MaxPlusOneDigits == SubSeq(I64MaxDigits, 1, Len(I64MaxDigits) - 1) \o <<"8">>

\* digit runs around i64::MAX, with and without sign, leading zero,
\* fraction
LongNumTexts ==
  LET runs  == {I64MaxDigits, I64MaxPlusOneDigits, <<"0">> \o I64MaxDigits,
                I64MaxDigits \o <<"0">>}
      signs == {<<>>, <<"-">>}
      tails == {<<>>, <<".", "5">>, <<".">> \o I64MaxPlusOneDigits, <<"x">>}
  IN  {sg \o r \o tl : sg \in signs, r \in runs, tl \in tails}
        \cup {sg \o <<"1", ".">> \o r : sg \in signs, r \in runs}

RECURSIVE Join(_, _)
Join(texts, sep) ==
  IF texts = <<>> THEN <<>>
  ELSE IF Len(texts) = 1 THEN texts[1]
  ELSE texts[1] \o sep \o Join(Tail(texts), sep)

Quoted(k) == <<"\"">> \o k \o <<"\"">>

\* [ v1 , ... , vn ], with a comma before the ] when trailing
ArrayText(items, trailing) ==
  <<"[">> \o Join(items, <<",">>) \o (IF trailing THEN <<",">> ELSE <<>>)
    \o <<"]">>

\* { "k1" : v1 , ... , "kn" : vn } for items <<k1, v1>>, ..., <<kn, vn>>
ObjectText(items, trailing) ==
  <<"{">>
    \o Join([i \in 1..Len(items) |->
              Quoted(items[i][1]) \o <<":">> \o items[i][2]], <<",">>)
    \o (IF trailing THEN <<",">> ELSE <<>>) \o <<"}">>

\* the value texts used as elements
ElemTexts ==
  { <<"1">>, Quoted(<<"a">>), <<"[", "2", "]">>,
    <<"{">> \o Quoted(<<"b">>) \o <<":", "n", "u", "l", "l", "}">> }

Keys == {<<"a">>, <<"b">>}

\* the sequences of at most n elements of the set items
RECURSIVE SeqsOf(_, _)
SeqsOf(items, n) ==
  IF n = 0 THEN {<<>>}
  ELSE LET shorter == SeqsOf(items, n - 1)
       IN  shorter \cup {Append(q, x) : q \in shorter, x \in items}

RawDoc(text) ==
  [shape |-> "raw", items |-> <<>>, trailing |-> FALSE, base |-> text]

ArrayDoc(items, trailing) ==
  [shape |-> "array", items |-> items, trailing |-> trailing,
   base |-> ArrayText(items, trailing)]

ObjectDoc(items, trailing) ==
  [shape |-> "object", items |-> items, trailing |-> trailing,
   base |-> ObjectText(items, trailing)]

\* the array and object literals of at most n elements taken from elems
Docs(elems, n) ==
  {ArrayDoc(q, tr) : q \in SeqsOf(elems, n), tr \in BOOLEAN}
    \cup {ObjectDoc(q, tr) : q \in SeqsOf(Keys \X elems, n), tr \in BOOLEAN}

\* the literals whitespace is inserted into; one element is a string that
\* holds a comma
WsElemTexts == {<<"1">>, <<"[", "2", "]">>, Quoted(<<",">>)}

WsDocs ==
  {ArrayDoc(q, FALSE) : q \in SeqsOf(WsElemTexts, MaxWsElems)}
    \cup {ObjectDoc(q, FALSE) :
             q \in SeqsOf({<<"a">>} \X WsElemTexts, MaxWsElems)}

WsChars == {" ", "\t", "\n"}

SepChars == {"[", "]", "{", "}", ",", ":"}

\* the i-th character of t lies inside a quoted string
InString(t, i) == Cardinality({j \in 1..(i - 1) : t[j] = "\""}) % 2 = 1

\* the i-th character of t is a structural character
Structural(t, i) == t[i] \in SepChars /\ ~InString(t, i)

\* the places (number of characters before them) immediately before or
\* after a structural character of t
StructuralGaps(t) ==
  UNION {{i - 1, i} : i \in {j \in 1..Len(t) : Structural(t, j)}}

InsertAt(t, g, w) == SubSeq(t, 1, g) \o <<w>> \o SubSeq(t, g + 1, Len(t))

\* t with at most n whitespace characters inserted, each immediately
\* before or after a structural character
RECURSIVE WsVariants(_, _)
WsVariants(t, n) ==
  IF n = 0 THEN {t}
  ELSE LET fewer == WsVariants(t, n - 1)
       IN  fewer \cup UNION {{InsertAt(u, g, w) :
                                g \in StructuralGaps(u), w \in WsChars} :
                              u \in fewer}

\* t with the whitespace character w inserted before and after every
\* structural character
Padded(t, w) ==
  LET RECURSIVE upto(_)
      upto(i) ==
        IF i = 0 THEN <<>>
        ELSE upto(i - 1)
               \o (IF Structural(t, i) THEN <<w, t[i], w>> ELSE <<t[i]>>)
  IN  upto(Len(t))

---------------------------------------------------------------------------
(* State: one call of one parser of json.rs on one text *)

VARIABLES
  input,    \* the text handed to the parser
  doc,      \* ghost: how the text was put together
  called,   \* the parser that was called, "none" before the call
  arg,      \* the character given to sep_with_space, "" otherwise
  cursor,   \* the cursor: the number of characters consumed
  outcome,  \* "pending", then "ok" or "err"
  value,    \* the value returned with "ok"
  log       \* ghost: the events of the call

vars == <<input, doc, called, arg, cursor, outcome, value, log>>

Fresh ==
  /\ called = "none"
  /\ arg = ""
  /\ cursor = 0
  /\ outcome = "pending"
  /\ value = NoVal
  /\ log = {}

Init ==
  /\ input \in TextsOf(Tokens, MaxTokens)
  /\ doc = RawDoc(input)
  /\ Fresh

InitNum ==
  /\ input \in TextsOf(NumChars, MaxNumLen) \cup LongNumTexts
  /\ doc = RawDoc(input)
  /\ Fresh

InitDoc ==
  /\ doc \in Docs(ElemTexts, MaxElems)
  /\ input = doc.base
  /\ Fresh

InitWs ==
  /\ doc \in WsDocs
  /\ input \in WsVariants(doc.base, MaxWs)
                \cup {Padded(doc.base, w) : w \in WsChars}
  /\ Fresh

\* the parser named p, called with the cursor at 0, returned r
Returns(p, c, r) ==
  /\ outcome = "pending"
  /\ called' = p
  /\ arg' = c
  /\ cursor' = r.pos
  /\ outcome' = IF r.ok THEN "ok" ELSE "err"
  /\ value' = r.val
  /\ log' = r.log
  /\ UNCHANGED <<input, doc>>

CallSepWithSpace ==
  \E c \in SepChars : Returns("sep_with_space", c, sep_with_space(input, 0, c))

CallParseNull == Returns("parse_null", "", parse_null(input, 0))

CallParseBool == Returns("parse_bool", "", parse_bool(input, 0))

CallParseNum == Returns("parse_num", "", parse_num(input, 0))

CallParseString == Returns("parse_string", "", parse_string(input, 0))

CallParseArray ==
  Returns("parse_array", "", parse_array(input, 0, StackDepth(input)))

CallParseObject ==
  Returns("parse_object", "", parse_object(input, 0, StackDepth(input)))

CallParseValue ==
  Returns("parse_value", "", parse_value(input, 0, StackDepth(input)))

CallParseJson == Returns("parse_json", "", parse_json(input))

Next ==
  \/ CallSepWithSpace
  \/ CallParseNull
  \/ CallParseBool
  \/ CallParseNum
  \/ CallParseString
  \/ CallParseArray
  \/ CallParseObject
  \/ CallParseValue
  \/ CallParseJson

Spec == Init /\ [][Next]_vars

NextNum == CallParseNum

SpecNum == InitNum /\ [][NextNum]_vars

NextDoc ==
  \/ CallParseArray
  \/ CallParseObject
  \/ CallParseValue
  \/ CallParseJson

SpecDoc == InitDoc /\ [][NextDoc]_vars

NextWs ==
  \/ CallParseArray
  \/ CallParseObject

SpecWs == InitWs /\ [][NextWs]_vars

---------------------------------------------------------------------------
(* Properties *)

Returned(p) == called = p /\ outcome # "pending"

\* the number of whitespace characters the text starts with
LeadingWs ==
  CHOOSE n \in 0..Len(input) :
    /\ \A i \in 1..n : input[i] \in Whitespace
    /\ n < Len(input) => input[n + 1] \notin Whitespace

\* the text starts, at offset p, with the characters of text
StartsWith(p, text) ==
  /\ p + Len(text) <= Len(input)
  /\ \A i \in 1..Len(text) : input[p + i] = text[i]

\* C1: parse_json returns a value only when no non-whitespace character of
\* the text is left unconsumed after the value.
C1_TrailingInputIsAnError ==
  (Returned("parse_json") /\ outcome = "ok")
    => \A i \in (cursor + 1)..Len(input) : input[i] \in Whitespace

ValueGrammarParsers ==
  {"sep_with_space", "parse_null", "parse_bool", "parse_num", "parse_string",
   "parse_array", "parse_object", "parse_value"}

SignLen == IF StartsWith(0, <<"-">>) THEN 1 ELSE 0

C5_Tried(k) ==
  CASE k = 1 -> parse_null(input, 0)
    [] k = 2 -> parse_bool(input, 0)
    [] k = 3 -> parse_num(input, 0)
    [] k = 4 -> parse_string(input, 0)
    [] k = 5 -> parse_array(input, 0, StackDepth(input))
    [] k = 6 -> parse_object(input, 0, StackDepth(input))

C5_Wrapped(k, v) ==
  CASE k = 1 -> <<"Null">>
    [] k = 2 -> <<"Bool", v>>
    [] k = 3 -> <<"Number", v>>
    [] k = 4 -> <<"String", v>>
    [] k = 5 -> <<"Array", v>>
    [] k = 6 -> <<"Object", v>>

\* parse_value returned what the first succeeding parser returns
C5_FirstSuccess ==
  \A k \in 1..6 :
    (C5_Tried(k).ok /\ \A j \in 1..(k - 1) : ~C5_Tried(j).ok)
      => /\ outcome = "ok"
         /\ value = C5_Wrapped(k, C5_Tried(k).val)
         /\ cursor = C5_Tried(k).pos

C5_AllFail == \A k \in 1..6 : ~C5_Tried(k).ok

C5_NullText == <<"n", "u", "l", "l">>

C6_EmptyObjectText ==
  /\ Len(input) >= 2
  /\ input[1] = "{"
  /\ input[Len(input)] = "}"
  /\ \A i \in 2..(Len(input) - 1) : input[i] \in Whitespace

\* C6: parse_object and parse_json fail on an object literal without
\* key/value pairs; parse_array returns the empty list on "[]".
C6_EmptyObjectRejected ==
  /\ (C6_EmptyObjectText /\ (Returned("parse_object") \/ Returned("parse_json")))
       => outcome = "err"
  /\ (input = <<"[", "]">> /\ Returned("parse_array"))
       => outcome = "ok" /\ value = <<>> /\ cursor = 2

\* parse_object failed on "{ }"
C6_Witness ==
  /\ Returned("parse_object")
  /\ input = <<"{", " ", "}">>
  /\ outcome = "err"

---------------------------------------------------------------------------
(* Properties of parse_num, under SpecNum *)

\* the decimal value of a digit run (of at most 9 digits)
RECURSIVE DecimalValue(_)
DecimalValue(ds) ==
  IF ds = <<>> THEN 0
  ELSE 10 * DecimalValue(SubSeq(ds, 1, Len(ds) - 1)) + DigitValue(ds[Len(ds)])

RECURSIVE Pow10(_)
Pow10(n) == IF n = 0 THEN 1 ELSE 10 * Pow10(n - 1)

\* the digit run of the text after its sign, and what follows the run
NumRun == SubSeq(input, SignLen + 1, SkipWhile(input, SignLen, Digits))

AfterRun == SignLen + Len(NumRun)

\* the digit run of the text after the decimal point that follows NumRun
FracRun == SubSeq(input, AfterRun + 2, SkipWhile(input, AfterRun + 1, Digits))

\* the text is [-]I.F for digit runs I and F of at most 5 digits together
C3_DecimalText ==
  /\ NumRun # <<>>
  /\ StartsWith(AfterRun, <<".">>)
  /\ FracRun # <<>>
  /\ AfterRun + 1 + Len(FracRun) = Len(input)
  /\ Len(NumRun) + Len(FracRun) <= 5

\* the Float <<"Float", neg, ip, fp>> is the decimal number [-]I.F
C3_DenotesText(v) ==
  /\ v[1] = "Float"
  /\ (DecimalValue(v[3]) * Pow10(Len(v[4])) + DecimalValue(v[4]))
         * Pow10(Len(FracRun))
       = (DecimalValue(NumRun) * Pow10(Len(FracRun)) + DecimalValue(FracRun))
           * Pow10(Len(v[4]))
  /\ v[2] = (SignLen = 1 /\ (DecimalValue(NumRun) # 0 \/ DecimalValue(FracRun) # 0))

\* C3: on [-]I.F parse_num returns the Float of the decimal number the
\* text denotes, the fractional digits used as written (leading zeros
\* included), negated when the sign is present.
C3_FloatDenotesSourceText ==
  (Returned("parse_num") /\ C3_DecimalText)
    => outcome = "ok" /\ C3_DenotesText(value)

\* C4: on [-]R, R a digit run not followed by a decimal point, parse_num
\* returns Int of R's decimal value, negated when the sign is present, if
\* that value is at most 2^63 - 1, and fails if it is larger; without a
\* digit after the optional sign it fails; a result is a Float exactly
\* when a decimal point follows R.
C4_IntOfDigitRun ==
  Returned("parse_num") =>
    /\ NumRun = <<>> => outcome = "err"
    /\ (NumRun # <<>> /\ ~StartsWith(AfterRun, <<".">>)) =>
         /\ Len(NumRun) <= 9 =>
              /\ outcome = "ok"
              /\ cursor = AfterRun
              /\ value[1] = "Int"
              /\ DecimalValue(value[3]) = DecimalValue(NumRun)
              /\ value[2] = (SignLen = 1 /\ DecimalValue(NumRun) # 0)
         /\ NumRun \in {I64MaxDigits, <<"0">> \o I64MaxDigits} =>
              /\ outcome = "ok"
              /\ cursor = AfterRun
              /\ value = <<"Int", SignLen = 1, I64MaxDigits>>
         /\ NumRun \in {I64MaxPlusOneDigits, I64MaxDigits \o <<"0">>} =>
              outcome = "err"
    /\ outcome = "ok" =>
         (value[1] = "Float" <=> StartsWith(AfterRun, <<".">>))

\* parse_num returned Int(-i64::MAX) on "-9223372036854775807"
C4_Witness ==
  /\ Returned("parse_num")
  /\ input = <<"-">> \o I64MaxDigits
  /\ outcome = "ok"
  /\ value = <<"Int", TRUE, I64MaxDigits>>

---------------------------------------------------------------------------
(* Properties of parse_array and parse_object, under SpecDoc and SpecWs *)

\* what parse_value returns on the text t alone
ValueOf(t) == parse_value(t, 0, StackDepth(t))

\* parse_value accepts the whole of t
IsValueText(t) == ValueOf(t).ok /\ ValueOf(t).pos = Len(t)

\* C7: parse_array on [v1,...,vn] returns the n parsed elements in source
\* order, the empty list for n = 0; with a comma before the ] it fails.
C7_ArrayElementsInOrder ==
  (Returned("parse_array") /\ doc.shape = "array"
     /\ \A i \in 1..Len(doc.items) : IsValueText(doc.items[i]))
    => IF doc.trailing
         THEN outcome = "err"
         ELSE /\ outcome = "ok"
              /\ cursor = Len(input)
              /\ Len(value) = Len(doc.items)
              /\ \A i \in 1..Len(doc.items) :
                    value[i] = ValueOf(doc.items[i]).val
              /\ doc.items = <<>> => value = <<>>
              /\ doc.items = <<<<"1">>>> =>
                    value = <<<<"Number", <<"Int", FALSE, <<"1">>>>>>>>

\* parse_array returned three elements, not all the same
C7_Witness ==
  /\ Returned("parse_array")
  /\ doc.shape = "array"
  /\ ~doc.trailing
  /\ Len(doc.items) = 3
  /\ doc.items[1] # doc.items[3]
  /\ outcome = "ok"
  /\ Len(value) = 3

\* C8: an array or object text that parse_array / parse_object accepts is
\* still accepted, with the same value, after whitespace is inserted
\* immediately before or after its structural characters.
C8_WhitespaceInsensitive ==
  /\ (Returned("parse_array") /\ doc.shape = "array"
        /\ parse_array(doc.base, 0, StackDepth(doc.base)).ok)
       => /\ outcome = "ok"
          /\ value = parse_array(doc.base, 0, StackDepth(doc.base)).val
  /\ (Returned("parse_object") /\ doc.shape = "object"
        /\ parse_object(doc.base, 0, StackDepth(doc.base)).ok)
       => /\ outcome = "ok"
          /\ value = parse_object(doc.base, 0, StackDepth(doc.base)).val

\* parse_object accepted a literal of two pairs with whitespace inserted
C8_Witness ==
  /\ Returned("parse_object")
  /\ doc.shape = "object"
  /\ Len(doc.items) = 2
  /\ input # doc.base
  /\ outcome = "ok"

\* the place of the last pair of the literal with key k
LastOf(k) ==
  CHOOSE i \in 1..Len(doc.items) :
    /\ doc.items[i][1] = k
    /\ \A j \in (i + 1)..Len(doc.items) : doc.items[j][1] # k

\* C9: the mapping parse_object returns has exactly the keys of the
\* literal, each with the value of its last occurrence.
C9_LastWriteWins ==
  (Returned("parse_object") /\ doc.shape = "object" /\ outcome = "ok")
    => /\ DOMAIN value = {doc.items[i][1] : i \in 1..Len(doc.items)}
       /\ \A k \in DOMAIN value :
             value[k] = ValueOf(doc.items[LastOf(k)][2]).val

\* parse_object accepted a literal that gives one key two different values
C9_Witness ==
  /\ Returned("parse_object")
  /\ doc.shape = "object"
  /\ outcome = "ok"
  /\ Len(doc.items) = 2
  /\ doc.items[1][1] = doc.items[2][1]
  /\ doc.items[1][2] # doc.items[2][2]

\* C10: every call returns a value or an error; every parse_value called
\* from parse_array or parse_object starts after the position where that
\* parser was entered; every round of a separated list consumes at least
\* one character; the recursion never uses up the call stack.
C10_ProgressAtEveryCall ==
  outcome # "pending" =>
    /\ outcome \in {"ok", "err"}
    /\ \A e \in log :
          /\ e[1] \in {"rec", "iter"}
          /\ e[2] < e[3]

\* parse_json made a nested call from a nested literal and went through a
\* round of a separated list
C10_Witness ==
  /\ Returned("parse_json")
  /\ outcome = "ok"
  /\ \E e \in log : e[1] = "rec" /\ e[2] > 0
  /\ \E e \in log : e[1] = "iter"

=============================================================================
